---------------------------- MODULE Spec2Model ----------------------------
(*************************************************************************)
(* Model of widget/datetime_widget.py: the DatetimeVar value holder and  *)
(* the DatetimeEntry composite widget (six validated entry fields bound  *)
(* to the value holder).                                                 *)
(*                                                                       *)
(* Texts are sequences of one-character strings, so that zfill, isdigit, *)
(* int, slicing and the parsers act on characters as the code does.      *)
(*************************************************************************)
EXTENDS Integers, Sequences, FiniteSets, TLC

VARIABLES
    entries,    \* self.entries: field name -> text shown in that Entry
    bound,      \* whether a textvariable was passed to the constructor
    var,        \* text stored in the Tcl variable of the bound DatetimeVar
    now,        \* datetime.now() read by the constructor
    last,       \* the event handled last, with the state it started from
    steps       \* number of events handled since construction

vars == <<entries, bound, var, now, last, steps>>

-----------------------------------------------------------------------------
\* Bounds of the exploration

MaxSteps == 2
MaxYear == 2400

-----------------------------------------------------------------------------
\* Python str helpers

Keys == <<"year", "month", "day", "hour", "minute", "second">>

KeySet == {Keys[i] : i \in 1..Len(Keys)}

Digits == <<"0", "1", "2", "3", "4", "5", "6", "7", "8", "9">>

DigitSet == {Digits[i] : i \in 1..10}

DigitVal(c) == CHOOSE i \in 0..9 : Digits[i + 1] = c

\* str.isdigit(): non-empty and every character a digit.  The texts of the
\* model are made of the decimal digits 0-9 and of characters that are no
\* digits; on the digits 0-9 isdigit and int agree on what a number is.
isdigit(s) == Len(s) > 0 /\ \A i \in 1..Len(s) : s[i] \in DigitSet

RECURSIVE int(_)
\* int(s) of a digit string
int(s) ==
    IF Len(s) = 0 THEN 0
    ELSE 10 * int(SubSeq(s, 1, Len(s) - 1)) + DigitVal(s[Len(s)])

RECURSIVE str(_)
\* str(n) of a non-negative integer
str(n) ==
    IF n < 10 THEN <<Digits[n + 1]>>
    ELSE str(n \div 10) \o <<Digits[(n % 10) + 1]>>

RECURSIVE zfill(_, _)
\* str.zfill(width): left-pad with "0" up to width, never truncate
zfill(s, width) ==
    IF Len(s) >= width THEN s ELSE zfill(<<"0">> \o s, width)

\* value[-2:]
last2(s) == IF Len(s) <= 2 THEN s ELSE SubSeq(s, Len(s) - 1, Len(s))

\* the built-ins min and max of two integers
py_min(a, b) == IF b < a THEN b ELSE a

py_max(a, b) == IF b > a THEN b ELSE a

\* int(text or 1)
int_or_1(s) == IF Len(s) = 0 THEN 1 ELSE int(s)

-----------------------------------------------------------------------------
\* datetime library: construction, strptime, isoformat, fromisoformat

\* datetime's own calendar (_is_leap, _days_in_month), independent of the widget
py_is_leap(year) == year % 4 = 0 /\ (year % 100 # 0 \/ year % 400 = 0)

py_days_in_month(year, month) ==
    IF month = 2 /\ py_is_leap(year) THEN 29
    ELSE <<31, 28, 31, 30, 31, 30, 31, 31, 30, 31, 30, 31>>[month]

DT(y, mo, d, h, mi, s) ==
    [year |-> y, month |-> mo, day |-> d, hour |-> h, minute |-> mi, second |-> s]

\* the range checks of the datetime constructor
datetime_ok(dt) ==
    /\ dt.year \in 1..9999
    /\ dt.month \in 1..12
    /\ dt.day >= 1
    /\ dt.day <= py_days_in_month(dt.year, dt.month)
    /\ dt.hour \in 0..23
    /\ dt.minute \in 0..59
    /\ dt.second \in 0..59

NoDate == DT(0, 0, 0, 0, 0, 0)

ValueError == [ok |-> FALSE, dt |-> NoDate]

Parsed(dt) == [ok |-> TRUE, dt |-> dt]

\* the regular expressions _strptime compiles the directives to
re_Y(s) == Len(s) = 4 /\ isdigit(s)

re_m(s) ==
    \/ Len(s) = 2 /\ s[1] = "1" /\ s[2] \in {"0", "1", "2"}
    \/ Len(s) = 2 /\ s[1] = "0" /\ s[2] \in DigitSet \ {"0"}
    \/ Len(s) = 1 /\ s[1] \in DigitSet \ {"0"}

re_d(s) ==
    \/ Len(s) = 2 /\ s[1] = "3" /\ s[2] \in {"0", "1"}
    \/ Len(s) = 2 /\ s[1] \in {"1", "2"} /\ s[2] \in DigitSet
    \/ Len(s) = 2 /\ s[1] = "0" /\ s[2] \in DigitSet \ {"0"}
    \/ Len(s) = 1 /\ s[1] \in DigitSet \ {"0"}
    \/ Len(s) = 2 /\ s[1] = " " /\ s[2] \in DigitSet \ {"0"}

re_H(s) ==
    \/ Len(s) = 2 /\ s[1] = "2" /\ s[2] \in {"0", "1", "2", "3"}
    \/ Len(s) = 2 /\ s[1] \in {"0", "1"} /\ s[2] \in DigitSet
    \/ Len(s) = 1 /\ s[1] \in DigitSet

re_M(s) ==
    \/ Len(s) = 2 /\ s[1] \in {"0", "1", "2", "3", "4", "5"} /\ s[2] \in DigitSet
    \/ Len(s) = 1 /\ s[1] \in DigitSet

re_S(s) ==
    \/ Len(s) = 2 /\ s[1] = "6" /\ s[2] \in {"0", "1"}
    \/ Len(s) = 2 /\ s[1] \in {"0", "1", "2", "3", "4", "5"} /\ s[2] \in DigitSet
    \/ Len(s) = 1 /\ s[1] \in DigitSet

\* int() of a matched group; the " 5" form of %d reads as 5
group_int(s) == IF s[1] = " " THEN int(Tail(s)) ELSE int(s)

RECURSIVE group_start(_, _)
\* where the i-th of the groups m, d, H, M, S starts when the groups before
\* it are w[1], ... characters wide: %Y takes four characters and one
\* separator character stands before every group
group_start(w, i) ==
    IF i = 1 THEN 6 ELSE group_start(w, i - 1) + w[i - 1] + 1

\* the text of the i-th group
group(s, w, i) == SubSeq(s, group_start(w, i), group_start(w, i) + w[i] - 1)

\* the separator before the i-th group
separator(s, w, i) == s[group_start(w, i) - 1]

\* The group widths with which s matches "%Y-%m-%d %H:%M:%S" from its first
\* to its last character.  Every alternative of a group is one or two
\* characters long and the two-character alternatives are tried first, so
\* the match re.match finds consumes the whole string exactly when some
\* choice of widths does.
strptime_splits(s) ==
    {w \in [1..5 -> 1..2] :
        /\ Len(s) = group_start(w, 5) + w[5] - 1
        /\ re_Y(SubSeq(s, 1, 4))
        /\ separator(s, w, 1) = "-"
        /\ re_m(group(s, w, 1))
        /\ separator(s, w, 2) = "-"
        /\ re_d(group(s, w, 2))
        /\ separator(s, w, 3) = " "
        /\ re_H(group(s, w, 3))
        /\ separator(s, w, 4) = ":"
        /\ re_M(group(s, w, 4))
        /\ separator(s, w, 5) = ":"
        /\ re_S(group(s, w, 5))}

\* the datetime constructor: the datetime, or ValueError
make_datetime(dt) == IF datetime_ok(dt) THEN Parsed(dt) ELSE ValueError

\* the datetime built from the groups of a match
strptime_build(s, w) ==
    make_datetime(DT(int(SubSeq(s, 1, 4)), group_int(group(s, w, 1)),
                     group_int(group(s, w, 2)), group_int(group(s, w, 3)),
                     group_int(group(s, w, 4)), group_int(group(s, w, 5))))

strptime_of(s, splits) ==
    IF splits = {} THEN ValueError
    ELSE strptime_build(s, CHOOSE w \in splits : TRUE)

\* datetime.strptime(s, "%Y-%m-%d %H:%M:%S"): the datetime, or ValueError
strptime(s) == strptime_of(s, strptime_splits(s))

\* isoformat(sep=' '): a space between date and time
isoformat_space(dt) ==
    zfill(str(dt.year), 4) \o <<"-">> \o zfill(str(dt.month), 2) \o <<"-">>
        \o zfill(str(dt.day), 2) \o <<" ">> \o zfill(str(dt.hour), 2) \o <<":">>
        \o zfill(str(dt.minute), 2) \o <<":">> \o zfill(str(dt.second), 2)

\* datetime.isoformat() of a datetime without microseconds or zone
isoformat(dt) ==
    zfill(str(dt.year), 4) \o <<"-">> \o zfill(str(dt.month), 2) \o <<"-">>
        \o zfill(str(dt.day), 2) \o <<"T">> \o zfill(str(dt.hour), 2) \o <<":">>
        \o zfill(str(dt.minute), 2) \o <<":">> \o zfill(str(dt.second), 2)

\* the shape fromisoformat accepts among the texts the model stores: a date
\* YYYY-MM-DD alone, or a date, any one separator character and HH:MM:SS
iso_shape(s) ==
    /\ Len(s) \in {10, 19}
    /\ isdigit(SubSeq(s, 1, 4)) /\ s[5] = "-"
    /\ isdigit(SubSeq(s, 6, 7)) /\ s[8] = "-"
    /\ isdigit(SubSeq(s, 9, 10))
    /\ Len(s) = 19 =>
           /\ isdigit(SubSeq(s, 12, 13)) /\ s[14] = ":"
           /\ isdigit(SubSeq(s, 15, 16)) /\ s[17] = ":"
           /\ isdigit(SubSeq(s, 18, 19))

\* int() of the two characters from position i, 0 past the end of the text
iso_part(s, i) == IF Len(s) < i + 1 THEN 0 ELSE int(SubSeq(s, i, i + 1))

\* datetime.fromisoformat(s): the datetime, or ValueError
fromisoformat(s) ==
    IF iso_shape(s)
    THEN make_datetime(DT(int(SubSeq(s, 1, 4)), iso_part(s, 6), iso_part(s, 9),
                          iso_part(s, 12), iso_part(s, 15), iso_part(s, 18)))
    ELSE ValueError

-----------------------------------------------------------------------------
\* DatetimeEntry: bounds, validation and the edits of an Entry

\* days_in_month without the 400-year rule
days_in_month_no400(month, year) ==
    IF month \in {4, 6, 9, 11} THEN 30
    ELSE IF month = 2
         THEN IF year % 4 = 0 /\ year % 100 # 0 THEN 29 ELSE 28
         ELSE 31

\* days_in_month(month, year)
days_in_month(month, year) ==
    IF month \in {4, 6, 9, 11} THEN 30
    ELSE IF month = 2
         THEN IF (year % 4 = 0 /\ year % 100 # 0) \/ (year % 400 = 0)
              THEN 29
              ELSE 28
         ELSE 31

\* get_min_max_values with the hours counted 0..24
get_min_max_values_hour24(key, ents) ==
    IF key = "hour" THEN <<0, 24>>
    ELSE IF key \in {"minute", "second"} THEN <<0, 59>>
    ELSE IF key = "month" THEN <<1, 12>>
    ELSE IF key = "day"
         THEN <<1, days_in_month(int_or_1(ents["month"]), int_or_1(ents["year"]))>>
         ELSE <<1, 9999>>

\* get_min_max_values(key): <<min_value, max_value>> of a field, the day's
\* maximum read live from the month and year fields
get_min_max_values(key, ents) ==
    IF key = "hour" THEN <<0, 23>>
    ELSE IF key \in {"minute", "second"} THEN <<0, 59>>
    ELSE IF key = "month" THEN <<1, 12>>
    ELSE IF key = "day"
         THEN <<1, days_in_month(int_or_1(ents["month"]), int_or_1(ents["year"]))>>
         ELSE <<1, 9999>>

\* validate_digit(P, W): P is the text the field would hold after the edit,
\* key the field whose widget name is W
validate_digit(P, key, ents) ==
    IF isdigit(P) \/ P = <<>>
    THEN LET mm == get_min_max_values(key, ents)
         IN  P = <<>> \/ (mm[1] <= int(P) /\ int(P) <= mm[2])
    ELSE FALSE

\* An edit of an Entry created with validate='key': the text becomes P when
\* the validatecommand accepts P and stays as it is otherwise.  Entry.insert
\* and Entry.delete called by the program are edits too and run the same
\* validatecommand.
entry_edit(ents, key, P) ==
    IF validate_digit(P, key, ents) THEN [ents EXCEPT ![key] = P] ELSE ents

\* entry.delete(0, "end")
entry_delete(ents, key) ==
    IF ents[key] = <<>> THEN ents ELSE entry_edit(ents, key, <<>>)

\* entry.insert(0, text)
entry_insert(ents, key, text) == entry_edit(ents, key, text \o ents[key])

\* entry.delete(0, "end"); entry.insert(0, text)
entry_replace(ents, key, text) == entry_insert(entry_delete(ents, key), key, text)

\* max(min_value, min(value, max_value))
clamp(value, mm) == py_max(mm[1], py_min(value, mm[2]))

\* a step past a bound continues from the other bound
wrap(value, mm) ==
    IF value > mm[2] THEN mm[1] ELSE IF value < mm[1] THEN mm[2] ELSE value

\* increment that wraps around instead of clamping
increment_wrap(ents, key, step) ==
    IF isdigit(ents[key])
    THEN entry_replace(ents, key,
             zfill(str(wrap(int(ents[key]) + step, get_min_max_values(key, ents))), 2))
    ELSE ents

\* increment counting an empty field as 0
increment_from_empty(ents, key, step) ==
    IF isdigit(ents[key]) \/ ents[key] = <<>>
    THEN entry_replace(ents, key,
             zfill(str(clamp((IF ents[key] = <<>> THEN 0 ELSE int(ents[key])) + step,
                             get_min_max_values(key, ents))), 2))
    ELSE ents

\* increment(key, step)
increment(ents, key, step) ==
    IF isdigit(ents[key])
    THEN entry_replace(ents, key,
             zfill(str(clamp(int(ents[key]) + step, get_min_max_values(key, ents))), 2))
    ELSE ents

\* the branch of revalidate_day for a numeric day
revalidate_day_to(ents, day, max_day) ==
    IF day > max_day
    THEN entry_replace(ents, "day", zfill(str(max_day), 2))
    ELSE ents

\* revalidate_day(event)
revalidate_day(ents) ==
    IF isdigit(ents["day"])
    THEN revalidate_day_to(ents, int(ents["day"]),
             days_in_month(int_or_1(ents["month"]), int_or_1(ents["year"])))
    ELSE ents

\* get_datetime(): the six fields composed, not parsed
get_datetime(ents) ==
    ents["year"] \o <<"-">> \o zfill(ents["month"], 2) \o <<"-">>
        \o zfill(ents["day"], 2) \o <<" ">> \o zfill(ents["hour"], 2) \o <<":">>
        \o zfill(ents["minute"], 2) \o <<":">> \o zfill(ents["second"], 2)

\* a correction round keeping the first two characters of a long text
correct_field_first2(ents, key) ==
    IF isdigit(ents[key]) /\ int(ents[key]) > 59
    THEN entry_replace(ents, key, <<"5", "9">>)
    ELSE IF isdigit(ents[key]) /\ Len(ents[key]) > 2
         THEN entry_replace(ents, key, zfill(SubSeq(ents[key], 1, 2), 2))
         ELSE ents

\* one round of the correction loop of on_entry_change
correct_field(ents, key) ==
    IF isdigit(ents[key]) /\ int(ents[key]) > 59
    THEN entry_replace(ents, key, <<"5", "9">>)
    ELSE IF isdigit(ents[key]) /\ Len(ents[key]) > 2
         THEN entry_replace(ents, key, zfill(last2(ents[key]), 2))
         ELSE ents

\* the correction loop of on_entry_change over hour, minute, second
correct_fields(ents) ==
    correct_field(correct_field(correct_field(ents, "hour"), "minute"), "second")

RECURSIVE set_fields_nopad(_, _, _)
\* the loop of set_datetime inserting str(value) without zfill(2)
set_fields_nopad(ents, t, i) ==
    IF i > Len(Keys) THEN ents
    ELSE set_fields_nopad(entry_replace(ents, Keys[i], t[Keys[i]]), t, i + 1)

RECURSIVE set_fields(_, _, _)
\* the loop of set_datetime over the fields from the i-th on, in the order of
\* the dict literal; t[key] is str(value) of the argument of that field
set_fields(ents, t, i) ==
    IF i > Len(Keys) THEN ents
    ELSE set_fields(entry_replace(ents, Keys[i], zfill(t[Keys[i]], 2)), t, i + 1)

\* the date_str of set_datetime, built from the arguments
set_datetime_str(t) ==
    t["year"] \o <<"-">> \o zfill(t["month"], 2) \o <<"-">>
        \o zfill(t["day"], 2) \o <<" ">> \o zfill(t["hour"], 2) \o <<":">>
        \o zfill(t["minute"], 2) \o <<":">> \o zfill(t["second"], 2)

\* str() of each component of a datetime, as update_entries passes them
StrArgs(dt) == [k \in KeySet |-> str(dt[k])]

\* What a call leaves behind: the fields, the stored text, whether it raised
\* ValueError to its caller, and whether a write callback raised (Tk reports
\* an exception of a callback and the write that fired the callback returns
\* normally).
Outcome(ents, v, raised, cberr) ==
    [entries |-> ents, var |-> v, raised |-> raised, cberr |-> cberr]

\* DatetimeVar.set(value), value a datetime, when no write callback runs for
\* it: before trace_add, and inside a write callback of the variable (Tcl
\* disables the traces of a variable while one of its callbacks runs)
DatetimeVar_set_untraced(ents, value) ==
    Outcome(ents, isoformat(value), FALSE, FALSE)

\* the end of set_datetime where textvariable.set fires no callback: e1 the
\* fields as rewritten, parsed the result of strptime(date_str)
set_datetime_push_untraced(e1, v, isBound, parsed) ==
    IF ~isBound THEN Outcome(e1, v, FALSE, FALSE)
    ELSE IF ~parsed.ok THEN Outcome(e1, v, TRUE, FALSE)
    ELSE DatetimeVar_set_untraced(e1, parsed.dt)

\* set_datetime where textvariable.set fires no callback: called by
\* __init__ before trace_add, and by update_entries inside the write
\* callback; t[key] is str() of the argument of the field
set_datetime_untraced(ents, v, isBound, t) ==
    set_datetime_push_untraced(set_fields(ents, t, 1), v, isBound,
                               strptime(set_datetime_str(t)))

\* set_datetime called by update_entries
set_datetime_in_callback(ents, v, t) == set_datetime_untraced(ents, v, TRUE, t)

\* update_entries after date = self.textvariable.get()
update_entries_with(ents, stored, date) ==
    IF ~date.ok THEN Outcome(ents, stored, TRUE, FALSE)
    ELSE set_datetime_in_callback(ents, stored, StrArgs(date.dt))

\* update_entries(*args), the write callback: stored is the text just
\* written, read back by DatetimeVar.get
update_entries(ents, stored) ==
    update_entries_with(ents, stored, fromisoformat(stored))

\* Tk reports an exception raised by a callback; the write that fired the
\* callback returns normally
reported(r) == Outcome(r.entries, r.var, FALSE, r.raised \/ r.cberr)

\* a write of text to the variable after trace_add: the callback runs
traced_write(ents, text) == reported(update_entries(ents, text))

\* DatetimeVar.set(value) with value a datetime, after trace_add
DatetimeVar_set(ents, value) == traced_write(ents, isoformat(value))

\* DatetimeVar.set(value) with value a str: stored as it is
DatetimeVar_set_str(ents, text) == traced_write(ents, text)

\* DatetimeVar.get() answering None when the stored text does not parse
DatetimeVar_get_none(ents, stored) == Outcome(ents, stored, FALSE, FALSE)

\* DatetimeVar.get() called from outside the widget: the stored text is read
\* and parsed; the ValueError of the parser is raised again to the caller
DatetimeVar_get(ents, stored) ==
    Outcome(ents, stored, ~fromisoformat(stored).ok, FALSE)

\* set_datetime writing the text of the fields to the variable when
\* date_str does not parse, instead of raising
set_datetime_push_raw(e1, v, isBound, parsed) ==
    IF ~isBound THEN Outcome(e1, v, FALSE, FALSE)
    ELSE IF ~parsed.ok THEN DatetimeVar_set_str(e1, get_datetime(e1))
    ELSE DatetimeVar_set(e1, parsed.dt)

\* the end of set_datetime on the constructed widget: e1 the fields as
\* rewritten, parsed the result of strptime(date_str)
set_datetime_push(e1, v, isBound, parsed) ==
    IF ~isBound THEN Outcome(e1, v, FALSE, FALSE)
    ELSE IF ~parsed.ok THEN Outcome(e1, v, TRUE, FALSE)
    ELSE DatetimeVar_set(e1, parsed.dt)

\* set_datetime(year, month, day, hour, minute, second) called on the
\* constructed widget; t[key] is str() of the argument of the field
set_datetime(ents, v, isBound, t) ==
    set_datetime_push(set_fields(ents, t, 1), v, isBound,
                      strptime(set_datetime_str(t)))

\* on_entry_change writing the composed text to the variable when it does
\* not parse, instead of dropping it
on_entry_change_push_raw(e1, v, isBound, parsed) ==
    IF ~isBound THEN Outcome(e1, v, FALSE, FALSE)
    ELSE IF ~parsed.ok THEN DatetimeVar_set_str(e1, get_datetime(e1))
    ELSE DatetimeVar_set(e1, parsed.dt)

\* the end of on_entry_change: e1 the fields as corrected, parsed the result
\* of strptime(date_str); ValueError is caught, so nothing is raised
on_entry_change_push(e1, v, isBound, parsed) ==
    IF ~isBound THEN Outcome(e1, v, FALSE, FALSE)
    ELSE IF ~parsed.ok THEN Outcome(e1, v, FALSE, FALSE)
    ELSE DatetimeVar_set(e1, parsed.dt)

\* on_entry_change after the correction loop
on_entry_change_compose(e1, v, isBound) ==
    on_entry_change_push(e1, v, isBound, strptime(get_datetime(e1)))

\* on_entry_change(event)
on_entry_change(ents, v, isBound) ==
    on_entry_change_compose(correct_fields(ents), v, isBound)

\* The handler each (field, event) ends up with in __init__: bind() without
\* add replaces the handler bound to that event before.
bind(b, key, event, handler) == [b EXCEPT ![key][event] = handler]

RECURSIVE bind_all(_, _, _, _)
bind_all(b, i, event, handler) ==
    IF i > Len(Keys) THEN b
    ELSE bind_all(bind(b, Keys[i], event, handler), i + 1, event, handler)

Events == {"FocusOut", "Return", "Up", "Down"}

Bindings ==
    LET b0 == [k \in KeySet |-> [e \in Events |-> "none"]]
        b1 == bind(b0, "month", "FocusOut", "revalidate_day")
        b2 == bind(b1, "year", "FocusOut", "revalidate_day")
        b3 == bind_all(bind_all(b2, 1, "Up", "increment"), 1, "Down", "increment")
        b4 == bind_all(bind_all(b3, 1, "FocusOut", "on_entry_change"),
                       1, "Return", "on_entry_change")
    IN  b4

\* handlers where an arrow key commits the fields after the step
handle_arrow_commits(h, ents, v, isBound, key, event) ==
    IF h = "revalidate_day" THEN Outcome(revalidate_day(ents), v, FALSE, FALSE)
    ELSE IF h = "on_entry_change" THEN on_entry_change(ents, v, isBound)
    ELSE IF h = "increment"
         THEN on_entry_change(increment(ents, key, IF event = "Up" THEN 1 ELSE -1),
                              v, isBound)
         ELSE Outcome(ents, v, FALSE, FALSE)

\* a handler applied to the state
handle(h, ents, v, isBound, key, event) ==
    IF h = "revalidate_day" THEN Outcome(revalidate_day(ents), v, FALSE, FALSE)
    ELSE IF h = "on_entry_change" THEN on_entry_change(ents, v, isBound)
    ELSE IF h = "increment"
         THEN Outcome(increment(ents, key, IF event = "Up" THEN 1 ELSE -1),
                      v, FALSE, FALSE)
         ELSE Outcome(ents, v, FALSE, FALSE)

\* the handler bound to event on the field key, applied to the state
dispatch(ents, v, isBound, key, event) ==
    handle(Bindings[key][event], ents, v, isBound, key, event)

-----------------------------------------------------------------------------
\* Inputs of the exploration

\* system times the constructor may read
NowSet ==
    {DT(2024, 1, 31, 10, 7, 42), DT(2023, 1, 29, 0, 0, 0),
     DT(2024, 2, 29, 23, 59, 59)}

\* date-times passed to set_datetime and to DatetimeVar.set from outside
Dates ==
    {DT(2000, 2, 29, 23, 59, 59), DT(5, 4, 30, 0, 0, 0),
     DT(999, 12, 31, 7, 5, 9), DT(1900, 2, 28, 12, 30, 0)}

\* the canonical form YYYY-MM-DD HH:MM:SS of a date-time
canonical(dt) ==
    zfill(str(dt.year), 4) \o <<"-">> \o zfill(str(dt.month), 2) \o <<"-">>
        \o zfill(str(dt.day), 2) \o <<" ">> \o zfill(str(dt.hour), 2) \o <<":">>
        \o zfill(str(dt.minute), 2) \o <<":">> \o zfill(str(dt.second), 2)

\* strings passed to DatetimeVar.set from outside
ExternalTexts ==
    {canonical(DT(2021, 6, 15, 8, 9, 10)), <<"x", "y">>,
     [canonical(DT(2021, 2, 30, 8, 9, 10)) EXCEPT ![11] = "T"]}

\* texts a keystroke, a deletion or a paste proposes for a field
KeyTexts(key) ==
    {<<>>, <<"a">>, <<"1", "a">>} \cup
    (IF key = "year"
        THEN {<<"0">>, <<"2", "0", "2", "3">>, <<"0", "0", "2", "4">>,
              <<"1", "0", "0", "0", "0">>}
     ELSE IF key = "month"
        THEN {<<"2">>, <<"0", "0", "2">>, <<"1", "3">>}
     ELSE IF key = "day"
        THEN {<<"2", "9">>, <<"3", "0">>, <<"3", "1">>, <<"3", "2">>}
     ELSE IF key = "hour"
        THEN {<<"2", "3">>, <<"2", "4">>, <<"0", "0", "7">>}
     ELSE IF key = "minute"
        THEN {<<"5", "9">>, <<"6", "0">>, <<"0", "0", "0">>}
        ELSE {<<"5", "9">>, <<"6", "1">>, <<"0", "0", "5", "9">>})

-----------------------------------------------------------------------------
\* State machine

NoVar == <<>>

\* the text tk.Variable.__init__ stores for _default = None
UnsetVar == <<"N", "o", "n", "e">>

EmptyEntries == [k \in KeySet |-> <<>>]

\* default_values taking minute and second from the clock as well
default_values_clock(nw) == [k \in KeySet |-> str(nw[k])]

\* default_values of __init__
default_values(nw) ==
    [year |-> str(nw.year), month |-> str(nw.month), day |-> str(nw.day),
     hour |-> str(nw.hour), minute |-> <<"0", "0">>, second |-> <<"0", "0">>]

\* __init__: set_datetime(**default_values) runs before trace_add
Construct(nw, isBound) ==
    set_datetime_untraced(EmptyEntries, IF isBound THEN UnsetVar ELSE NoVar,
                          isBound, default_values(nw))

\* the state after construction with system time nw
InitFrom(nw, isBound, r) ==
    /\ now = nw
    /\ bound = isBound
    /\ entries = r.entries
    /\ var = r.var
    /\ last = [op |-> "init", key |-> "none", arg |-> 0, accepted |-> TRUE,
               raised |-> r.raised, cberr |-> r.cberr,
               pre |-> EmptyEntries, preVar |-> NoVar]
    /\ steps = 0

Init ==
    \E nw \in NowSet : \E isBound \in BOOLEAN :
        InitFrom(nw, isBound, Construct(nw, isBound))

\* the state after an event with outcome r
Step(r, op, key, arg, accepted) ==
    /\ entries' = r.entries
    /\ var' = r.var
    /\ last' = [op |-> op, key |-> key, arg |-> arg, accepted |-> accepted,
                raised |-> r.raised, cberr |-> r.cberr,
                pre |-> entries, preVar |-> var]
    /\ steps' = steps + 1
    /\ UNCHANGED <<bound, now>>

\* the user edits a field: Tk asks validate_digit about the proposed text P
Keystroke(key, P) ==
    /\ steps < MaxSteps
    /\ Step(Outcome(entry_edit(entries, key, P), var, FALSE, FALSE),
            "keystroke", key, P, validate_digit(P, key, entries))

\* <FocusOut> on a field
FocusOut(key) ==
    /\ steps < MaxSteps
    /\ Step(dispatch(entries, var, bound, key, "FocusOut"), "FocusOut", key, 0, TRUE)

\* <Return> on a field
Return(key) ==
    /\ steps < MaxSteps
    /\ Step(dispatch(entries, var, bound, key, "Return"), "Return", key, 0, TRUE)

\* <Up> on a field
Up(key) ==
    /\ steps < MaxSteps
    /\ Step(dispatch(entries, var, bound, key, "Up"), "Up", key, 1, TRUE)

\* <Down> on a field
Down(key) ==
    /\ steps < MaxSteps
    /\ Step(dispatch(entries, var, bound, key, "Down"), "Down", key, -1, TRUE)

\* the program calls set_datetime with a valid date-time
SetDatetime(d) ==
    /\ steps < MaxSteps
    /\ Step(set_datetime(entries, var, bound, StrArgs(d)),
            "set_datetime", "none", d, TRUE)

\* the program calls set(d) on the bound variable with a datetime
ExternalSet(d) ==
    /\ steps < MaxSteps
    /\ bound
    /\ Step(DatetimeVar_set(entries, d), "external_set", "none", d, TRUE)

\* the program calls set(text) on the bound variable with a str
ExternalSetStr(text) ==
    /\ steps < MaxSteps
    /\ bound
    /\ Step(DatetimeVar_set_str(entries, text), "external_set_str", "none", text, TRUE)

\* the program calls get() on the bound variable
ExternalGet ==
    /\ steps < MaxSteps
    /\ bound
    /\ Step(DatetimeVar_get(entries, var), "external_get", "none", 0, TRUE)

Next ==
    \/ \E key \in KeySet : \E P \in KeyTexts(key) : Keystroke(key, P)
    \/ \E key \in KeySet : FocusOut(key)
    \/ \E key \in KeySet : Return(key)
    \/ \E key \in KeySet : Up(key)
    \/ \E key \in KeySet : Down(key)
    \/ \E d \in Dates : SetDatetime(d)
    \/ \E d \in Dates : ExternalSet(d)
    \/ \E text \in ExternalTexts : ExternalSetStr(text)
    \/ ExternalGet

Spec == Init /\ [][Next]_vars

\* The widget on its own: the events of the user and the calls of
\* set_datetime, nothing else touching the observable
NextWidget ==
    \/ \E key \in KeySet : \E P \in KeyTexts(key) : Keystroke(key, P)
    \/ \E key \in KeySet : FocusOut(key)
    \/ \E key \in KeySet : Return(key)
    \/ \E key \in KeySet : Up(key)
    \/ \E key \in KeySet : Down(key)
    \/ \E d \in Dates : SetDatetime(d)

SpecWidget == Init /\ [][NextWidget]_vars

-----------------------------------------------------------------------------
\* days_in_month on its own: the arguments are drawn, then the call is made

InitDays ==
    /\ now = DT(2024, 1, 31, 10, 7, 42)
    /\ bound = FALSE
    /\ entries = [k \in KeySet |-> zfill(default_values(now)[k], 2)]
    /\ var = NoVar
    /\ \E month \in 1..12 : \E year \in 1..MaxYear :
           last = [op |-> "args", key |-> "day", arg |-> <<month, year>>,
                   accepted |-> TRUE, raised |-> FALSE, cberr |-> FALSE,
                   pre |-> EmptyEntries, preVar |-> NoVar]
    /\ steps = 0

DaysInMonthCall ==
    /\ last.op = "args"
    /\ last' = [last EXCEPT !.op = "days_in_month",
                            !.arg = last.arg \o <<days_in_month(last.arg[1], last.arg[2])>>]
    /\ UNCHANGED <<entries, bound, var, now, steps>>

NextDays == DaysInMonthCall

SpecDays == InitDays /\ [][NextDays]_vars

-----------------------------------------------------------------------------
\* Reference definitions the properties are stated with

\* the proleptic Gregorian day count of a month
LeapYear(year) == (year % 4 = 0 /\ year % 100 # 0) \/ year % 400 = 0

GregorianDays(month, year) ==
    CASE month \in {4, 6, 9, 11} -> 30
      [] month \in {1, 3, 5, 7, 8, 10, 12} -> 31
      [] month = 2 -> IF LeapYear(year) THEN 29 ELSE 28

\* a valid date-time: year >= 1, month 1..12, day 1..days of the month, ...
ValidDateTime(d) ==
    /\ d.year >= 1
    /\ d.month \in 1..12
    /\ d.day \in 1..GregorianDays(d.month, d.year)
    /\ d.hour \in 0..23
    /\ d.minute \in 0..59
    /\ d.second \in 0..59

\* the bounds of a field, the day's from the month and year fields of ents
\* with an empty field read as 1
FieldLo(key) == IF key \in {"hour", "minute", "second"} THEN 0 ELSE 1

FieldHi(key, ents) ==
    CASE key = "year" -> 9999
      [] key = "month" -> 12
      [] key = "day" -> GregorianDays(IF ents["month"] = <<>> THEN 1 ELSE int(ents["month"]),
                                      IF ents["year"] = <<>> THEN 1 ELSE int(ents["year"]))
      [] key = "hour" -> 23
      [] key \in {"minute", "second"} -> 59

Clamp(n, lo, hi) == IF n < lo THEN lo ELSE IF n > hi THEN hi ELSE n

IsCommit == last.op \in {"FocusOut", "Return"}

IsArrow == last.op \in {"Up", "Down"}

\* the date-time a commit composes from the fields it started from
Composed == strptime(get_datetime(correct_fields(last.pre)))

\* the text the correction step of a commit is to leave in an hour, minute
\* or second field that held t
CorrectedText(t) ==
    IF isdigit(t) /\ int(t) > 59 THEN <<"5", "9">>
    ELSE IF isdigit(t) /\ Len(t) > 2 THEN SubSeq(t, Len(t) - 1, Len(t))
    ELSE t

\* the fields the correction step is to leave, started from the fields pre
CorrectedFields(pre) ==
    [k \in KeySet |-> IF k \in {"hour", "minute", "second"}
                      THEN CorrectedText(pre[k]) ELSE pre[k]]

\* the event handled last wrote the bound observable: a commit whose
\* composed text parsed, a set_datetime that did not raise, or a set from
\* outside
WroteObservable ==
    /\ bound
    /\ \/ IsCommit /\ Composed.ok
       \/ last.op = "set_datetime" /\ ~last.raised
       \/ last.op \in {"external_set", "external_set_str"}

\* the two-digit number at positions i, i + 1 of a text
TwoDigits(s, i) ==
    IF s[i] \in DigitSet /\ s[i + 1] \in DigitSet
    THEN 10 * DigitVal(s[i]) + DigitVal(s[i + 1])
    ELSE -1

\* a text YYYY-MM-DD, one separator character, HH:MM:SS that names a valid
\* date-time
IsoDateTimeText(s) ==
    /\ Len(s) = 19
    /\ s[5] = "-" /\ s[8] = "-" /\ s[14] = ":" /\ s[17] = ":"
    /\ TwoDigits(s, 1) >= 0 /\ TwoDigits(s, 3) >= 0
    /\ ValidDateTime(DT(100 * TwoDigits(s, 1) + TwoDigits(s, 3), TwoDigits(s, 6),
                        TwoDigits(s, 9), TwoDigits(s, 12), TwoDigits(s, 15),
                        TwoDigits(s, 18)))

-----------------------------------------------------------------------------
\* Properties

\* C1: after set_datetime with a valid date-time, the call has returned and
\* get_datetime() is the canonical string YYYY-MM-DD HH:MM:SS of that
\* date-time, with or without a bound observable.
C1_SetGetRoundTrip ==
    (last.op = "set_datetime" /\ ValidDateTime(last.arg))
        => (~last.raised /\ get_datetime(entries) = canonical(last.arg))

\* C2: when focus leaves the month or the year field while the day field
\* holds a number above the day count of the month and year fields, the day
\* field reads that day count once the focus-out has been handled.
C2_FocusOutReclampsDay ==
    (/\ last.op = "FocusOut"
     /\ last.key \in {"month", "year"}
     /\ isdigit(last.pre["day"])
     /\ int(last.pre["day"]) > FieldHi("day", last.pre))
        => (/\ isdigit(entries["day"])
            /\ int(entries["day"]) = FieldHi("day", last.pre))

\* C3: once a commit has been handled, a numeric day field never exceeds the
\* day count of the month and year the fields hold.
C3_DayWithinMonthAfterCommit ==
    (IsCommit /\ isdigit(entries["day"]))
        => int(entries["day"]) <= FieldHi("day", entries)

\* C4: a keystroke's proposed text is accepted if and only if it is empty or
\* all digits with a value inside the field's bounds; an accepted text
\* becomes the field's text, a rejected one leaves every field as it was.
C4_KeystrokeAcceptance ==
    last.op = "keystroke" =>
        LET P == last.arg
            inBounds == /\ Len(P) > 0
                        /\ \A i \in 1..Len(P) : P[i] \in DigitSet
                        /\ int(P) >= FieldLo(last.key)
                        /\ int(P) <= FieldHi(last.key, last.pre)
        IN  /\ last.accepted <=> (P = <<>> \/ inBounds)
            /\ last.accepted => entries = [last.pre EXCEPT ![last.key] = P]
            /\ ~last.accepted => entries = last.pre

C4_Witness ==
    /\ last.op = "keystroke"
    /\ last.key = "day"
    /\ last.arg = <<"3", "0">>
    /\ last.pre["month"] = <<"0", "2">>
    /\ ~last.accepted
    /\ entries = last.pre

\* C5: an arrow-key step on a field with numeric content leaves the field
\* numeric with the stepped value clamped into the field's bounds, never
\* wrapped, and a step on the minute field leaves the hour field alone.
C5_IncrementClamps ==
    (IsArrow /\ isdigit(last.pre[last.key])) =>
        LET lo == FieldLo(last.key)
            hi == FieldHi(last.key, last.pre)
        IN  /\ isdigit(entries[last.key])
            /\ int(entries[last.key]) = Clamp(int(last.pre[last.key]) + last.arg, lo, hi)
            /\ int(entries[last.key]) >= lo
            /\ int(entries[last.key]) <= hi
            /\ last.key = "minute" => entries["hour"] = last.pre["hour"]

C5_Witness ==
    /\ last.op = "Up"
    /\ last.key = "minute"
    /\ last.pre["minute"] = <<"5", "9">>
    /\ entries["minute"] = <<"5", "9">>
    /\ entries["hour"] = last.pre["hour"]

\* C6 as stated: after the observable is set from outside to a date-time d,
\* the year field shows d.year with no zero padding and the other five
\* fields show their component of d in exactly two digits.
C6_YearUnpadded ==
    last.op = "external_set" =>
        /\ isdigit(entries["year"])
        /\ int(entries["year"]) = last.arg.year
        /\ (Len(entries["year"]) = 1 \/ entries["year"][1] # "0")
        /\ \A k \in KeySet \ {"year"} :
               /\ Len(entries[k]) = 2
               /\ isdigit(entries[k])
               /\ int(entries[k]) = last.arg[k]

\* C6 amended: after the observable is set from outside to a date-time d,
\* the year field shows d.year zero-padded to at least two digits (natural
\* width from year 10 on, a leading zero for the years 1..9) and the other
\* five fields show their component of d in exactly two digits.
C6_YearPaddedToTwo ==
    last.op = "external_set" =>
        /\ isdigit(entries["year"])
        /\ int(entries["year"]) = last.arg.year
        /\ Len(entries["year"]) >= 2
        /\ (Len(entries["year"]) > 2 => entries["year"][1] # "0")
        /\ \A k \in KeySet \ {"year"} :
               /\ Len(entries[k]) = 2
               /\ isdigit(entries[k])
               /\ int(entries[k]) = last.arg[k]

C6_Witness ==
    /\ last.op = "external_set"
    /\ last.arg.year = 5
    /\ entries["year"] = <<"0", "5">>
    /\ entries["month"] = <<"0", "4">>
    /\ entries # last.pre

\* C7 as stated: after set(value) with a date-time, the stored text is the
\* canonical form YYYY-MM-DD HH:MM:SS of that date-time.
C7_StoredCanonical ==
    last.op = "external_set" => var = canonical(last.arg)

\* C7 amended: after set(value) with a date-time, the stored text is the
\* ISO form YYYY-MM-DDTHH:MM:SS of that date-time: the canonical form with
\* the letter T in place of the space between date and time.
C7_StoredIsoT ==
    last.op = "external_set" =>
        /\ Len(var) = 19
        /\ var[11] = "T"
        /\ [var EXCEPT ![11] = " "] = canonical(last.arg)
        /\ var # get_datetime(entries)

C7_Witness ==
    /\ last.op = "external_set"
    /\ var # last.preVar
    /\ var[11] = "T"
    /\ SubSeq(var, 1, 4) = <<"2", "0", "0", "0">>

\* C8: a commit whose composed string does not parse raises nothing and
\* leaves the stored text of the bound observable exactly as it was.
C8_FailedCommitSwallowed ==
    (IsCommit /\ bound /\ ~Composed.ok)
        => (~last.raised /\ ~last.cberr /\ var = last.preVar)

C8_Witness ==
    /\ IsCommit
    /\ bound
    /\ last.pre["month"] = <<"0", "2">>
    /\ last.pre["day"] = <<"3", "1">>
    /\ ~Composed.ok
    /\ var = last.preVar

\* C9: after a commit whose composed string parses, the observable's get()
\* is the composed date-time and get_datetime() is the canonical string of
\* that date-time.
C9_CommitSynchronises ==
    (IsCommit /\ bound /\ Composed.ok)
        => (/\ fromisoformat(var).ok
            /\ fromisoformat(var).dt = Composed.dt
            /\ get_datetime(entries) = canonical(Composed.dt))

\* C10: days_in_month(month, year) is the proleptic Gregorian day count for
\* every month 1..12 and year >= 1 (29 for February 2000 and 2024, 28 for
\* February 1900 and 2023).
C10_DaysInMonthGregorian ==
    last.op = "days_in_month" =>
        LET month == last.arg[1]
            year == last.arg[2]
            result == last.arg[3]
        IN  /\ result = GregorianDays(month, year)
            /\ (month = 2 /\ year \in {2000, 2024}) => result = 29
            /\ (month = 2 /\ year \in {1900, 2023}) => result = 28
            /\ month = 4 => result = 30
            /\ month = 1 => result = 31

C10_Witness ==
    /\ last.op = "days_in_month"
    /\ last.arg = <<2, 2000, 29>>

\* C11: get() on stored text that is not a valid ISO-8601 date-time raises
\* to its caller and leaves the stored text (and the fields) as they were;
\* on a valid text it returns without raising.
C11_GetFailsOnBadText ==
    last.op = "external_get" =>
        /\ ~IsoDateTimeText(last.preVar) => last.raised
        /\ IsoDateTimeText(last.preVar) => ~last.raised
        /\ var = last.preVar
        /\ entries = last.pre

C11_Witness ==
    /\ last.op = "external_get"
    /\ last.preVar = <<"x", "y">>
    /\ last.raised
    /\ var = <<"x", "y">>

\* C12: once construction has finished, the year, month, day and hour
\* fields show the system date and hour read by the constructor, the minute
\* and second fields show "00" whatever the clock's minute and second, and
\* a bound observable holds that date and hour with minute and second 0.
C12_ConstructionDefaults ==
    last.op = "init" =>
        /\ ~last.raised
        /\ \A k \in {"year", "month", "day", "hour"} :
               /\ isdigit(entries[k])
               /\ int(entries[k]) = now[k]
        /\ \A k \in {"month", "day", "hour"} : Len(entries[k]) = 2
        /\ entries["minute"] = <<"0", "0">>
        /\ entries["second"] = <<"0", "0">>
        /\ bound =>
               /\ IsoDateTimeText(var)
               /\ fromisoformat(var).dt = DT(now.year, now.month, now.day, now.hour, 0, 0)
        /\ ~bound => var = NoVar

C12_Witness ==
    /\ last.op = "init"
    /\ bound
    /\ now.minute = 7 /\ now.second = 42
    /\ entries["minute"] = <<"0", "0">>
    /\ entries["hour"] = <<"1", "0">>
    /\ SubSeq(var, 12, 19) = <<"1", "0", ":", "0", "0", ":", "0", "0">>

\* C13: the correction step of a commit turns a numeric hour, minute or
\* second text above 59 into "59" and otherwise a numeric text longer than
\* two characters into its last two characters, and changes no other text:
\* year, month and day are left as they were.  It is all a commit does to
\* the fields when no observable is bound or the composed text does not
\* parse, and after every commit a numeric hour, minute or second field is
\* at most two characters long with a value of at most 59.
C13_CorrectionStep ==
    IsCommit =>
        /\ correct_fields(last.pre) = CorrectedFields(last.pre)
        /\ (~bound \/ ~Composed.ok) => entries = CorrectedFields(last.pre)
        /\ \A k \in {"hour", "minute", "second"} :
               isdigit(entries[k]) => (Len(entries[k]) <= 2 /\ int(entries[k]) <= 59)

C13_Witness ==
    /\ IsCommit
    /\ ~bound
    /\ last.pre["second"] = <<"0", "0", "5", "9">>
    /\ entries["second"] = <<"5", "9">>
    /\ entries["year"] = last.pre["year"]
    /\ entries["hour"] = last.pre["hour"]

\* C14: an arrow-key step on a field whose content is not numeric (an empty
\* field) leaves all six fields as they were; on a field with numeric
\* content it leaves the other five fields as they were and writes the
\* stepped value into the field zero-padded to at least two digits.
C14_ArrowFrame ==
    IsArrow =>
        /\ ~isdigit(last.pre[last.key]) => entries = last.pre
        /\ isdigit(last.pre[last.key]) =>
               /\ \A k \in KeySet \ {last.key} : entries[k] = last.pre[k]
               /\ isdigit(entries[last.key])
               /\ Len(entries[last.key]) >= 2
               /\ Len(entries[last.key]) > 2 => entries[last.key][1] # "0"
               /\ int(entries[last.key]) =
                      Clamp(int(last.pre[last.key]) + last.arg,
                            FieldLo(last.key), FieldHi(last.key, last.pre))

C14_Witness ==
    /\ last.op = "Down"
    /\ last.key = "month"
    /\ last.pre["month"] = <<"2">>
    /\ entries["month"] = <<"0", "1">>
    /\ entries["day"] = last.pre["day"]
    /\ entries["year"] = last.pre["year"]

\* C15: as long as only the widget writes the bound observable (construction,
\* keystrokes, arrow keys, commits, set_datetime with valid arguments), the
\* stored text always parses as a valid date-time, so get() never fails.
C15_StoredAlwaysParses ==
    bound => (IsoDateTimeText(var) /\ fromisoformat(var).ok)

C15_Witness ==
    /\ bound
    /\ IsCommit
    /\ last.pre["day"] = <<>>
    /\ entries["day"] = <<>>
    /\ var = last.preVar
    /\ IsoDateTimeText(var)

\* C16: a keystroke, accepted or rejected, and an arrow-key step leave the
\* stored text of the bound observable as it was; the stored text changes
\* only in a commit, a set_datetime or a set from outside, so the fields
\* may differ from the observable between commits.
C16_ObservableFrame ==
    /\ last.op \in {"keystroke", "Up", "Down"} =>
           (var = last.preVar /\ ~last.raised /\ ~last.cberr)
    /\ (last.op # "init" /\ var # last.preVar) =>
           last.op \in {"FocusOut", "Return", "set_datetime",
                        "external_set", "external_set_str"}

C16_Witness ==
    /\ bound
    /\ last.op = "keystroke"
    /\ last.key = "day"
    /\ last.accepted
    /\ entries["day"] = <<"2", "9">>
    /\ last.pre["day"] # <<"2", "9">>
    /\ var = last.preVar
    /\ SubSeq(var, 9, 10) # <<"2", "9">>

\* C17: an event that writes the bound observable (a commit, a set_datetime,
\* a set from outside) runs the write callback update_entries, whose own
\* write fires no further callback, and the event completes: no callback
\* fails, and at its end the stored text parses, the fields compose a text
\* that parses, and both name the same date-time.
C17_WriteLoopConverges ==
    WroteObservable =>
        /\ ~last.raised
        /\ ~last.cberr
        /\ fromisoformat(var).ok
        /\ strptime(get_datetime(entries)).ok
        /\ strptime(get_datetime(entries)).dt = fromisoformat(var).dt

=============================================================================
